---- MODULE Spec2Model ----
(***************************************************************************)
(* Model of saber.chatbot.Chatbot: the validated configuration store, the  *)
(* lazy model/agent factory, the synchronous bridge over the event loop    *)
(* and the chat history.  One action per public method; the external       *)
(* engine (init_chat_model, create_react_agent, agent.ainvoke) is an       *)
(* opaque collaborator whose outcome is chosen nondeterministically.       *)
(***************************************************************************)
EXTENDS Integers, Sequences, FiniteSets, TLC

(***************************************************************************)
(* Bounds of the model.                                                    *)
(***************************************************************************)
\* longest chat history explored (entries)
MaxHistory == 3
\* number of event loops the thread may create
MaxLoops == 2
\* lists the caller keeps from get_chat_history
MaxReturned == 2
\* changes the caller makes to the lists it keeps
MaxMutations == 1
\* units of work scheduled on a running event loop
MaxTasks == 2
\* file names kept by the file store
MaxFiles == 2

(***************************************************************************)
(* Python values: a runtime type, a string payload and a numeric payload.  *)
(* A float f carries the integer f * FloatOne, an int carries itself.      *)
(***************************************************************************)
FloatOne == 1000
PyNone == [type |-> "NoneType", s |-> "", n |-> 0]
PyStr(x) == [type |-> "str", s |-> x, n |-> 0]
PyInt(i) == [type |-> "int", s |-> "", n |-> i]
PyFloat(i) == [type |-> "float", s |-> "", n |-> i]
HumanMessage(c) == [type |-> "HumanMessage", s |-> c, n |-> 0]
AIMessage(c) == [type |-> "AIMessage", s |-> c, n |-> 0]

\* dict.get(key, default) and dict[key] = value on a dict modelled as a
\* function whose domain is the set of keys present
DictGet(d, k, default) == IF k \in DOMAIN d THEN d[k] ELSE default
DictSet(d, k, v) == [x \in (DOMAIN d) \cup {k} |-> IF x = k THEN v ELSE d[x]]
EmptyDict == [x \in {} |-> PyNone]

(***************************************************************************)
(* Class constants.                                                        *)
(***************************************************************************)
SUPPORTED_PROVIDERS == {"openai", "google_genai"}

\* variant: a model is filed under the wrong provider
SupportedModelsMisfiled ==
    [p \in SUPPORTED_PROVIDERS |->
        IF p = "openai"
        THEN {"gpt-4", "gpt-4-turbo", "gpt-4o", "gpt-4o-mini", "gpt-3.5-turbo",
              "gemini-2.0-flash"}
        ELSE {"gemini-2.5-pro", "gemini-2.5-flash"}]

SUPPORTED_MODELS_BY_PROVIDER ==
    [p \in SUPPORTED_PROVIDERS |->
        IF p = "openai"
        THEN {"gpt-4", "gpt-4-turbo", "gpt-4o", "gpt-4o-mini", "gpt-3.5-turbo"}
        ELSE {"gemini-2.5-pro", "gemini-2.5-flash", "gemini-2.0-flash"}]

DefaultSystemMessage ==
    PyStr("You are an assistant for question-answering tasks. Use the following pieces of retrieved context to answer the question. If you don't know the answer, just say that you don't know. Use three sentences maximum and keep the answer concise.")

\* the thread_id every invocation is addressed to
ThreadId == "1"

(***************************************************************************)
(* Inputs the callers are drawn from.                                      *)
(***************************************************************************)
ProviderInputs ==
    {PyNone, PyStr("openai"), PyStr("google_genai"), PyStr(""),
     PyStr("anthropic"), PyInt(12345)}
ModelNameInputs ==
    {PyNone, PyStr("gpt-4o"), PyStr("gemini-2.5-flash"), PyStr(""),
     PyInt(12345)}
TemperatureInputs ==
    {PyFloat(-1), PyFloat(0), PyFloat(FloatOne), PyFloat(FloatOne + 1),
     PyInt(1), PyInt(2), PyStr("invalid_type")}
SystemMessageInputs ==
    {DefaultSystemMessage, PyStr("Be brief."), PyStr(""), PyNone}
\* (provider, key) arguments of set_api_key
ApiKeyInputs ==
    {<<PyStr("google_genai"), PyStr("k1")>>, <<PyStr("google_genai"), PyStr("k2")>>,
     <<PyStr("google_genai"), PyStr("")>>, <<PyStr("google_genai"), PyNone>>,
     <<PyStr("openai"), PyStr("k1")>>,
     <<PyStr("anthropic"), PyStr("k1")>>, <<PyStr("anthropic"), PyNone>>,
     <<PyNone, PyStr("k1")>>}
\* arguments of get_api_key
ApiKeyLookupInputs ==
    {PyStr("google_genai"), PyStr("openai"), PyStr("anthropic"), PyNone}
UserMessageInputs == {HumanMessage("q1"), PyInt(12345)}
Replies == {AIMessage("a1")}

(***************************************************************************)
(* State.                                                                  *)
(***************************************************************************)
VARIABLES
    model_provider,     \* self._model_provider
    model_name,         \* self._model_name
    model_temperature,  \* self._model_temperature
    system_message,     \* self._system_message
    api_key,            \* self._api_key
    model,              \* self._model
    agent,              \* self._agent
    chat_history,       \* self._chat_history
    event_loop,         \* self._event_loop: 0 for None, else a loop id
    thread_loop,        \* the current event loop of the calling thread
    loops,              \* number of event loops created so far
    closed,             \* the loops that have been closed
    builds,             \* handles the engine has built since the last change
                        \* of the configuration
    call,               \* the last call made on the controller and its outcome
    returned,           \* the lists get_chat_history has returned, in order;
                        \* a list is named by its identity
    copies,             \* copies[k]: the items of the list of identity k
    mutations,          \* number of changes the caller made to those lists
    running,            \* the event loop running on the calling thread while
                        \* the controller is called: 0 for none
    tasks,              \* the tasks _run_async has created, in order
    uploaded_files,     \* names of the files the file store holds
    checkpointer,       \* self._checkpointer: the identity of the store
    other_event_loop    \* self._event_loop of a second controller used from
                        \* the same thread: 0 for None, else a loop id

config == <<model_provider, model_name, model_temperature, system_message,
            api_key>>
handles == <<model, agent>>
loopState == <<event_loop, thread_loop, loops, closed>>
callerState == <<returned, copies, mutations>>
hostState == <<running, tasks>>
fileState == <<uploaded_files>>
storeState == <<checkpointer>>
peerState == <<other_event_loop>>
vars == <<model_provider, model_name, model_temperature, system_message,
          api_key, model, agent, chat_history, event_loop, thread_loop,
          loops, closed, builds, call, returned, copies, mutations, running,
          tasks, uploaded_files, checkpointer, other_event_loop>>

(***************************************************************************)
(* Outcome of a call.                                                      *)
(***************************************************************************)
\* no exception
NoError == [exc |-> "none", msg |-> "", origin |-> "none"]
\* an exception of class exc raised by origin with message msg
Error(exc, msg, origin) == [exc |-> exc, msg |-> msg, origin |-> origin]

\* what the last call did: the method, the exception that reached the caller,
\* the returned value, and the use it made of the external engine
CallRecord(op, err, ret) ==
    [op |-> op, err |-> err, ret |-> ret,
     model_init |-> "none", agent_init |-> "none", invoked |-> FALSE,
     input |-> <<>>, thread_id |-> ""]

\* the store InMemorySaver() returns in __init__: an object, named by its
\* identity
InMemorySaver == 1

Init ==
    /\ model_provider = PyNone
    /\ model_name = PyNone
    /\ model_temperature = PyFloat(0)
    /\ system_message = DefaultSystemMessage
    /\ api_key = EmptyDict
    /\ model = PyNone
    /\ agent = PyNone
    /\ chat_history = <<>>
    /\ event_loop = 0
    /\ thread_loop = 0
    /\ loops = 0
    /\ closed = {}
    /\ builds = [model |-> 0, agent |-> 0]
    /\ call = CallRecord("__init__", NoError, PyNone)
    /\ returned = <<>>
    /\ copies = <<>>
    /\ mutations = 0
    /\ running = 0
    /\ tasks = <<>>
    /\ uploaded_files = {}
    /\ checkpointer = InMemorySaver
    /\ other_event_loop = 0

(***************************************************************************)
(* Validation utilities.                                                   *)
(***************************************************************************)
\* variant: the empty string passes
ValidateStringAllowsEmpty(value, var_name) ==
    IF value.type # "str"
    THEN Error("TypeError", var_name \o " must be a string", "controller")
    ELSE NoError

ValidateString(value, var_name) ==
    IF value.type # "str"
    THEN Error("TypeError", var_name \o " must be a string", "controller")
    ELSE IF value.s = ""
    THEN Error("ValueError", var_name \o " must be a non-empty string.",
               "controller")
    ELSE NoError

\* variant: any non-empty string is a provider
ValidateProviderAsString(value) == ValidateString(value, "Model provider")

ValidateModelProvider(value) ==
    LET e == ValidateString(value, "Model provider") IN
    IF e.exc # "none" THEN e
    ELSE IF value.s \notin SUPPORTED_PROVIDERS
    THEN Error("ValueError", "Model provider is not supported.", "controller")
    ELSE NoError

\* variant: the agent survives the reset
ResetModelOnly ==
    /\ model' = PyNone
    /\ agent' = agent

ResetModelAndAgent ==
    /\ model' = PyNone
    /\ agent' = PyNone

(***************************************************************************)
(* Setters.                                                                *)
(***************************************************************************)
\* variant: the model name survives a change of provider
SetModelProviderKeepName(value) ==
    LET e == IF value # PyNone THEN ValidateModelProvider(value) ELSE NoError
    IN  /\ call' = CallRecord("set_model_provider", e, PyNone)
        /\ IF e.exc = "none" /\ value # model_provider
           THEN /\ model_provider' = value
                /\ ResetModelAndAgent
                /\ builds' = [model |-> 0, agent |-> 0]
           ELSE UNCHANGED <<model_provider, model, agent, builds>>
        /\ UNCHANGED <<model_name, model_temperature, system_message, api_key,
                       chat_history, loopState, callerState,
                       hostState, fileState, storeState, peerState>>

\* variant: the provider is applied even when it is the current one
SetModelProviderAlwaysApplies(value) ==
    LET e == IF value # PyNone THEN ValidateModelProvider(value) ELSE NoError
    IN  /\ call' = CallRecord("set_model_provider", e, PyNone)
        /\ IF e.exc = "none"
           THEN /\ model_provider' = value
                /\ model_name' = PyNone
                /\ ResetModelAndAgent
                /\ builds' = [model |-> 0, agent |-> 0]
           ELSE UNCHANGED <<model_provider, model_name, model, agent, builds>>
        /\ UNCHANGED <<model_temperature, system_message, api_key,
                       chat_history, loopState, callerState, hostState,
                       fileState, storeState, peerState>>

SetModelProvider(value) ==
    LET e == IF value # PyNone THEN ValidateModelProvider(value) ELSE NoError
    IN  /\ call' = CallRecord("set_model_provider", e, PyNone)
        /\ IF e.exc = "none" /\ value # model_provider
           THEN /\ model_provider' = value
                /\ model_name' = PyNone
                /\ ResetModelAndAgent
                /\ builds' = [model |-> 0, agent |-> 0]
           ELSE UNCHANGED <<model_provider, model_name, model, agent, builds>>
        /\ UNCHANGED <<model_temperature, system_message, api_key,
                       chat_history, loopState, callerState,
                       hostState, fileState, storeState, peerState>>

\* variant: a model of any provider is accepted
SetModelNameErrorAnyProvider(value) ==
    IF value # PyNone
    THEN IF model_provider = PyNone
         THEN Error("ValueError",
                    "Model provider must be set before setting the model name.",
                    "controller")
         ELSE LET e == ValidateString(value, "Model name") IN
              IF e.exc # "none" THEN e
              ELSE IF \A p \in SUPPORTED_PROVIDERS :
                          value.s \notin SUPPORTED_MODELS_BY_PROVIDER[p]
              THEN Error("ValueError", "Model is not supported.", "controller")
              ELSE NoError
    ELSE NoError

\* variant: without a provider the name is checked against the models of
\* every provider
SetModelNameErrorProviderOptional(value) ==
    IF value # PyNone
    THEN LET e == ValidateString(value, "Model name")
             supported ==
                 IF model_provider = PyNone
                 THEN UNION {SUPPORTED_MODELS_BY_PROVIDER[p] :
                                 p \in SUPPORTED_PROVIDERS}
                 ELSE DictGet(SUPPORTED_MODELS_BY_PROVIDER,
                              model_provider.s, {})
         IN  IF e.exc # "none" THEN e
             ELSE IF value.s \notin supported
             THEN Error("ValueError", "Model is not supported.", "controller")
             ELSE NoError
    ELSE NoError

\* the validation prologue of set_model_name
SetModelNameError(value) ==
    IF value # PyNone
    THEN IF model_provider = PyNone
         THEN Error("ValueError",
                    "Model provider must be set before setting the model name.",
                    "controller")
         ELSE LET e == ValidateString(value, "Model name") IN
              IF e.exc # "none" THEN e
              ELSE IF value.s \notin DictGet(SUPPORTED_MODELS_BY_PROVIDER,
                                            model_provider.s, {})
              THEN Error("ValueError", "Model is not supported.", "controller")
              ELSE NoError
    ELSE NoError

SetModelName(value) ==
    LET e == SetModelNameError(value)
    IN  /\ call' = CallRecord("set_model_name", e, PyNone)
        /\ IF e.exc = "none" /\ value # model_name
           THEN /\ model_name' = value
                /\ ResetModelAndAgent
                /\ builds' = [model |-> 0, agent |-> 0]
           ELSE UNCHANGED <<model_name, model, agent, builds>>
        /\ UNCHANGED <<model_provider, model_temperature, system_message,
                       api_key, chat_history, loopState, callerState,
                       hostState, fileState, storeState, peerState>>

\* float(value) for an int or a float
\* variant: the number is stored as given
NotCoerced(value) == value

\* float(value)
ToFloat(value) ==
    IF value.type = "int" THEN PyFloat(value.n * FloatOne) ELSE value

\* variant: the bounds of the interval are excluded
SetModelTemperatureErrorOpenInterval(value) ==
    IF value.type \notin {"int", "float"}
    THEN Error("TypeError", "Model temperature must be a number", "controller")
    ELSE IF ~(0 < ToFloat(value).n /\ ToFloat(value).n < FloatOne)
    THEN Error("ValueError", "Model temperature is out of range [0.0, 1.0]",
               "controller")
    ELSE NoError

\* the validation prologue of set_model_temperature
SetModelTemperatureError(value) ==
    IF value.type \notin {"int", "float"}
    THEN Error("TypeError", "Model temperature must be a number", "controller")
    ELSE IF ~(0 <= ToFloat(value).n /\ ToFloat(value).n <= FloatOne)
    THEN Error("ValueError", "Model temperature is out of range [0.0, 1.0]",
               "controller")
    ELSE NoError

\* variant: the handles are reset whenever the value is valid
SetModelTemperatureAlwaysReset(value) ==
    LET e == SetModelTemperatureError(value)
    IN  /\ call' = CallRecord("set_model_temperature", e, PyNone)
        /\ IF e.exc = "none"
           THEN /\ model_temperature' = ToFloat(value)
                /\ ResetModelAndAgent
                /\ builds' = [model |-> 0, agent |-> 0]
           ELSE UNCHANGED <<model_temperature, model, agent, builds>>
        /\ UNCHANGED <<model_provider, model_name, system_message, api_key,
                       chat_history, loopState, callerState,
                       hostState, fileState, storeState, peerState>>

SetModelTemperature(value) ==
    LET e == SetModelTemperatureError(value)
    IN  /\ call' = CallRecord("set_model_temperature", e, PyNone)
        /\ IF e.exc = "none" /\ ToFloat(value) # model_temperature
           THEN /\ model_temperature' = ToFloat(value)
                /\ ResetModelAndAgent
                /\ builds' = [model |-> 0, agent |-> 0]
           ELSE UNCHANGED <<model_temperature, model, agent, builds>>
        /\ UNCHANGED <<model_provider, model_name, system_message, api_key,
                       chat_history, loopState, callerState,
                       hostState, fileState, storeState, peerState>>

\* variant: the message is stored before it is validated
SetSystemMessageAssignFirst(value) ==
    LET e == ValidateString(value, "System message")
    IN  /\ call' = CallRecord("set_system_message", e, PyNone)
        /\ IF value # system_message
           THEN /\ system_message' = value
                /\ ResetModelAndAgent
                /\ builds' = [model |-> 0, agent |-> 0]
           ELSE UNCHANGED <<system_message, model, agent, builds>>
        /\ UNCHANGED <<model_provider, model_name, model_temperature, api_key,
                       chat_history, loopState, callerState,
                       hostState, fileState, storeState, peerState>>

\* variant: a new system message starts a new conversation
SetSystemMessageClearsHistory(value) ==
    LET e == ValidateString(value, "System message")
    IN  /\ call' = CallRecord("set_system_message", e, PyNone)
        /\ IF e.exc = "none" /\ value # system_message
           THEN /\ system_message' = value
                /\ ResetModelAndAgent
                /\ chat_history' = <<>>
                /\ builds' = [model |-> 0, agent |-> 0]
           ELSE UNCHANGED <<system_message, model, agent, builds,
                            chat_history>>
        /\ UNCHANGED <<model_provider, model_name, model_temperature, api_key,
                       loopState, callerState,
                       hostState, fileState, storeState, peerState>>

SetSystemMessage(value) ==
    LET e == ValidateString(value, "System message")
    IN  /\ call' = CallRecord("set_system_message", e, PyNone)
        /\ IF e.exc = "none" /\ value # system_message
           THEN /\ system_message' = value
                /\ ResetModelAndAgent
                /\ builds' = [model |-> 0, agent |-> 0]
           ELSE UNCHANGED <<system_message, model, agent, builds>>
        /\ UNCHANGED <<model_provider, model_name, model_temperature, api_key,
                       chat_history, loopState, callerState,
                       hostState, fileState, storeState, peerState>>

\* the validation prologue of set_api_key
SetApiKeyError(provider, key) ==
    LET e == ValidateModelProvider(provider) IN
    IF e.exc # "none" THEN e ELSE ValidateString(key, "API key")

\* variant: a changed key leaves the handles alone
SetApiKeyNoReset(provider, key) ==
    LET e == SetApiKeyError(provider, key)
    IN  /\ call' = CallRecord("set_api_key", e, PyNone)
        /\ IF e.exc = "none" /\ key # DictGet(api_key, provider, PyNone)
           THEN /\ api_key' = DictSet(api_key, provider, key)
                /\ builds' = [model |-> 0, agent |-> 0]
           ELSE UNCHANGED <<api_key, builds>>
        /\ UNCHANGED <<model_provider, model_name, model_temperature,
                       system_message, model, agent, chat_history, loopState,
                       callerState,
                       hostState, fileState, storeState, peerState>>

\* variant: the new key replaces the whole dictionary
SetApiKeyForgetsOthers(provider, key) ==
    LET e == SetApiKeyError(provider, key)
    IN  /\ call' = CallRecord("set_api_key", e, PyNone)
        /\ IF e.exc = "none" /\ key # DictGet(api_key, provider, PyNone)
           THEN /\ api_key' = DictSet(EmptyDict, provider, key)
                /\ ResetModelAndAgent
                /\ builds' = [model |-> 0, agent |-> 0]
           ELSE UNCHANGED <<api_key, model, agent, builds>>
        /\ UNCHANGED <<model_provider, model_name, model_temperature,
                       system_message, chat_history, loopState, callerState,
                       hostState, fileState, storeState, peerState>>

SetApiKey(provider, key) ==
    LET e == SetApiKeyError(provider, key)
    IN  /\ call' = CallRecord("set_api_key", e, PyNone)
        /\ IF e.exc = "none" /\ key # DictGet(api_key, provider, PyNone)
           THEN /\ api_key' = DictSet(api_key, provider, key)
                /\ ResetModelAndAgent
                /\ builds' = [model |-> 0, agent |-> 0]
           ELSE UNCHANGED <<api_key, model, agent, builds>>
        /\ UNCHANGED <<model_provider, model_name, model_temperature,
                       system_message, chat_history, loopState, callerState,
                       hostState, fileState, storeState, peerState>>

(***************************************************************************)
(* Getters.                                                                *)
(***************************************************************************)
\* a getter returns value and touches nothing
Getter(op, value) ==
    /\ call' = CallRecord(op, NoError, value)
    /\ UNCHANGED <<config, handles, chat_history, loopState, builds,
                   callerState,
                       hostState, fileState, storeState, peerState>>

GetModelProvider == Getter("get_model_provider", model_provider)

GetModelName == Getter("get_model_name", model_name)

GetModelTemperature == Getter("get_model_temperature", model_temperature)

GetSystemMessage == Getter("get_system_message", system_message)

\* variant: self._api_key[model_provider]
GetApiKeySubscript(provider) ==
    IF provider \in DOMAIN api_key
    THEN Getter("get_api_key", api_key[provider])
    ELSE /\ call' = CallRecord("get_api_key",
                               Error("KeyError", "", "controller"), PyNone)
         /\ UNCHANGED <<config, handles, chat_history, loopState, builds,
                        callerState,
                       hostState, fileState, storeState, peerState>>

GetApiKey(provider) ==
    Getter("get_api_key", DictGet(api_key, provider, PyNone))

(***************************************************************************)
(* Model/agent factory.  ext is the behaviour of the external engine       *)
(* during one call: whether init_chat_model and create_react_agent         *)
(* succeed, and what agent.ainvoke does.                                   *)
(***************************************************************************)
ExternalBehaviour(init, create, invoke, reply) ==
    [init_chat_model |-> init, create_react_agent |-> create,
     ainvoke |-> invoke, reply |-> reply]

\* the engine fails at the first, second or third step, or at none
ExternalBehaviours ==
    {ExternalBehaviour("fail", "ok", "reply", r) : r \in Replies}
        \cup {ExternalBehaviour("ok", "fail", "reply", r) : r \in Replies}
        \cup {ExternalBehaviour("ok", "ok", i, r) :
                  i \in {"reply", "empty", "raise", "cancel"}, r \in Replies}

\* the handle init_chat_model returns
ModelHandle(provider, name, temperature, key) ==
    [handle |-> "model", provider |-> provider, name |-> name,
     temperature |-> temperature, api_key |-> key]

\* variant: every agent gets a store of its own
NewCheckpointer == checkpointer + builds.agent + 1

\* checkpointer=self._checkpointer
AgentCheckpointer == checkpointer

\* the handle create_react_agent returns
AgentHandle(m, prompt) ==
    [handle |-> "agent", model |-> m, tools |-> <<>>,
     checkpointer |-> AgentCheckpointer, prompt |-> prompt]

\* variant: the model name is checked before the provider
InitModelNameFirst(ext) ==
    IF model_name = PyNone
    THEN [err |-> Error("ValueError", "Model name is not set.", "controller"),
          value |-> PyNone, attempted |-> FALSE]
    ELSE IF model_provider = PyNone
    THEN [err |-> Error("ValueError", "Model provider is not set.",
                        "controller"),
          value |-> PyNone, attempted |-> FALSE]
    ELSE IF DictGet(api_key, model_provider, PyNone) = PyNone
    THEN [err |-> Error("ValueError", "API key for model provider is not set.",
                        "controller"),
          value |-> PyNone, attempted |-> FALSE]
    ELSE IF ext.init_chat_model = "fail"
    THEN [err |-> Error("Exception", "init_chat_model failed",
                        "init_chat_model"),
          value |-> PyNone, attempted |-> TRUE]
    ELSE [err |-> NoError,
          value |-> ModelHandle(model_provider, model_name, model_temperature,
                                api_key[model_provider]),
          attempted |-> TRUE]

\* variant: a failure of init_chat_model is wrapped in a new error
InitModelWrapsFailure(ext) ==
    IF model_provider = PyNone
    THEN [err |-> Error("ValueError", "Model provider is not set.",
                        "controller"),
          value |-> PyNone, attempted |-> FALSE]
    ELSE IF model_name = PyNone
    THEN [err |-> Error("ValueError", "Model name is not set.", "controller"),
          value |-> PyNone, attempted |-> FALSE]
    ELSE IF DictGet(api_key, model_provider, PyNone) = PyNone
    THEN [err |-> Error("ValueError", "API key for model provider is not set.",
                        "controller"),
          value |-> PyNone, attempted |-> FALSE]
    ELSE IF ext.init_chat_model = "fail"
    THEN [err |-> Error("RuntimeError",
                        "Failed to initialize chat model: "
                            \o "init_chat_model failed",
                        "controller"),
          value |-> PyNone, attempted |-> TRUE]
    ELSE [err |-> NoError,
          value |-> ModelHandle(model_provider, model_name, model_temperature,
                                api_key[model_provider]),
          attempted |-> TRUE]

\* _init_model: the error raised, or the model built
InitModel(ext) ==
    IF model_provider = PyNone
    THEN [err |-> Error("ValueError", "Model provider is not set.",
                        "controller"),
          value |-> PyNone, attempted |-> FALSE]
    ELSE IF model_name = PyNone
    THEN [err |-> Error("ValueError", "Model name is not set.", "controller"),
          value |-> PyNone, attempted |-> FALSE]
    ELSE IF DictGet(api_key, model_provider, PyNone) = PyNone
    THEN [err |-> Error("ValueError", "API key for model provider is not set.",
                        "controller"),
          value |-> PyNone, attempted |-> FALSE]
    ELSE IF ext.init_chat_model = "fail"
    THEN [err |-> Error("Exception", "init_chat_model failed",
                        "init_chat_model"),
          value |-> PyNone, attempted |-> TRUE]
    ELSE [err |-> NoError,
          value |-> ModelHandle(model_provider, model_name, model_temperature,
                                api_key[model_provider]),
          attempted |-> TRUE]

\* variant: self._model is assigned before init_chat_model is known to have
\* succeeded
CreateAgentKeepsFailedModel(ext) ==
    LET im == IF model = PyNone THEN InitModel(ext)
              ELSE [err |-> NoError, value |-> model, attempted |-> FALSE]
        model_init == IF ~im.attempted THEN "none"
                      ELSE IF im.err.exc = "none" THEN "ok" ELSE "fail"
    IN  IF im.err.exc # "none"
        THEN [err |-> im.err,
              model |-> IF im.attempted
                        THEN ModelHandle(model_provider, model_name,
                                         model_temperature,
                                         api_key[model_provider])
                        ELSE model,
              value |-> PyNone,
              model_init |-> model_init, agent_init |-> "none"]
        ELSE IF ext.create_react_agent = "fail"
        THEN [err |-> Error("Exception", "create_react_agent failed",
                            "create_react_agent"),
              model |-> im.value, value |-> PyNone,
              model_init |-> model_init, agent_init |-> "fail"]
        ELSE [err |-> NoError, model |-> im.value,
              value |-> AgentHandle(im.value, system_message),
              model_init |-> model_init, agent_init |-> "ok"]

\* variant: the model is initialised whether or not one is cached
CreateAgentAlwaysInit(ext) ==
    LET im == InitModel(ext)
        model_init == IF ~im.attempted THEN "none"
                      ELSE IF im.err.exc = "none" THEN "ok" ELSE "fail"
    IN  IF im.err.exc # "none"
        THEN [err |-> im.err, model |-> model, value |-> PyNone,
              model_init |-> model_init, agent_init |-> "none"]
        ELSE IF ext.create_react_agent = "fail"
        THEN [err |-> Error("Exception", "create_react_agent failed",
                            "create_react_agent"),
              model |-> im.value, value |-> PyNone,
              model_init |-> model_init, agent_init |-> "fail"]
        ELSE [err |-> NoError, model |-> im.value,
              value |-> AgentHandle(im.value, system_message),
              model_init |-> model_init, agent_init |-> "ok"]

\* _create_agent: the error raised, the value self._model has afterwards,
\* and the agent built
CreateAgent(ext) ==
    LET im == IF model = PyNone THEN InitModel(ext)
              ELSE [err |-> NoError, value |-> model, attempted |-> FALSE]
        model_init == IF ~im.attempted THEN "none"
                      ELSE IF im.err.exc = "none" THEN "ok" ELSE "fail"
    IN  IF im.err.exc # "none"
        THEN [err |-> im.err, model |-> model, value |-> PyNone,
              model_init |-> model_init, agent_init |-> "none"]
        ELSE IF ext.create_react_agent = "fail"
        THEN [err |-> Error("Exception", "create_react_agent failed",
                            "create_react_agent"),
              model |-> im.value, value |-> PyNone,
              model_init |-> model_init, agent_init |-> "fail"]
        ELSE [err |-> NoError, model |-> im.value,
              value |-> AgentHandle(im.value, system_message),
              model_init |-> model_init, agent_init |-> "ok"]

(***************************************************************************)
(* Response cycle.                                                         *)
(***************************************************************************)
\* the "messages" list of the state agent.ainvoke returns
ResponseMessages(user_message, ext) ==
    IF ext.ainvoke = "empty" THEN <<>> ELSE <<user_message, ext.reply>>

\* variant: response["messages"][0]
FirstMessage(messages) == messages[1]

\* response["messages"][-1]
LastMessage(messages) == messages[Len(messages)]

\* variant: the conversation so far is sent along with the new message
AgentInputWithHistory(user_message) == Append(chat_history, user_message)

\* the "messages" list given to agent.ainvoke
AgentInput(user_message) == <<user_message>>

\* variant: an error of the agent call is logged and None is returned
AsyncGetResponseSwallowsError(user_message, ext) ==
    LET ca == IF agent = PyNone THEN CreateAgent(ext)
              ELSE [err |-> NoError, model |-> model, value |-> agent,
                    model_init |-> "none", agent_init |-> "none"]
        built == [model |-> ca.model, model_init |-> ca.model_init,
                  agent_init |-> ca.agent_init]
        sent == [invoked |-> TRUE, input |-> AgentInput(user_message),
                 thread_id |-> ThreadId]
        unsent == [invoked |-> FALSE, input |-> <<>>, thread_id |-> ""]
        messages == ResponseMessages(user_message, ext)
        appended == Append(chat_history, user_message)
    IN  IF ca.err.exc # "none"
        THEN [err |-> ca.err, agent |-> agent, history |-> chat_history,
              ret |-> PyNone, built |-> built, sent |-> unsent]
        ELSE IF ext.ainvoke = "raise"
        THEN [err |-> NoError,
              agent |-> ca.value, history |-> chat_history,
              ret |-> PyNone, built |-> built, sent |-> sent]
        ELSE IF ext.ainvoke = "cancel"
        THEN [err |-> NoError,
              agent |-> ca.value, history |-> chat_history,
              ret |-> PyNone, built |-> built, sent |-> sent]
        ELSE IF messages = <<>>
        THEN [err |-> Error("IndexError", "list index out of range",
                            "controller"),
              agent |-> ca.value, history |-> appended,
              ret |-> PyNone, built |-> built, sent |-> sent]
        ELSE [err |-> NoError, agent |-> ca.value,
              history |-> Append(appended, LastMessage(messages)),
              ret |-> LastMessage(messages), built |-> built, sent |-> sent]

\* _async_get_response run to completion: the error raised, the values of
\* self._model, self._agent and self._chat_history afterwards, the value
\* returned, and the use made of the external engine
AsyncGetResponse(user_message, ext) ==
    LET ca == IF agent = PyNone THEN CreateAgent(ext)
              ELSE [err |-> NoError, model |-> model, value |-> agent,
                    model_init |-> "none", agent_init |-> "none"]
        built == [model |-> ca.model, model_init |-> ca.model_init,
                  agent_init |-> ca.agent_init]
        sent == [invoked |-> TRUE, input |-> AgentInput(user_message),
                 thread_id |-> ThreadId]
        unsent == [invoked |-> FALSE, input |-> <<>>, thread_id |-> ""]
        messages == ResponseMessages(user_message, ext)
        appended == Append(chat_history, user_message)
    IN  IF ca.err.exc # "none"
        THEN [err |-> ca.err, agent |-> agent, history |-> chat_history,
              ret |-> PyNone, built |-> built, sent |-> unsent]
        ELSE IF ext.ainvoke = "raise"
        THEN [err |-> Error("Exception", "ainvoke failed", "ainvoke"),
              agent |-> ca.value, history |-> chat_history,
              ret |-> PyNone, built |-> built, sent |-> sent]
        ELSE IF ext.ainvoke = "cancel"
        THEN [err |-> Error("CancelledError", "", "ainvoke"),
              agent |-> ca.value, history |-> chat_history,
              ret |-> PyNone, built |-> built, sent |-> sent]
        ELSE IF messages = <<>>
        THEN [err |-> Error("IndexError", "list index out of range",
                            "controller"),
              agent |-> ca.value, history |-> appended,
              ret |-> PyNone, built |-> built, sent |-> sent]
        ELSE [err |-> NoError, agent |-> ca.value,
              history |-> Append(appended, LastMessage(messages)),
              ret |-> LastMessage(messages), built |-> built, sent |-> sent]

(***************************************************************************)
(* Synchronous bridge.  The calling thread is synchronous: no event loop   *)
(* is running when a method of the controller is called.                   *)
(***************************************************************************)
\* loop.is_closed()
IsClosed(loop) == loop \in closed

\* _run_async has to fetch an event loop
NeedsEventLoop == event_loop = 0 \/ IsClosed(event_loop)

\* _get_or_create_event_loop has to create a loop: the thread has no current
\* loop, or its current loop is closed
CreatesEventLoop == thread_loop = 0 \/ IsClosed(thread_loop)

\* _get_or_create_event_loop followed by the assignment to self._event_loop
GetOrCreateEventLoop ==
    IF CreatesEventLoop
    THEN /\ loops' = loops + 1
         /\ thread_loop' = loops + 1
         /\ event_loop' = loops + 1
    ELSE /\ event_loop' = thread_loop
         /\ UNCHANGED <<loops, thread_loop>>

\* variant: every call gets a new loop
RunAsyncFreshLoop ==
    /\ loops' = loops + 1
    /\ thread_loop' = loops + 1
    /\ event_loop' = loops + 1
    /\ UNCHANGED closed

\* the event-loop part of _run_async
RunAsync ==
    /\ IF NeedsEventLoop THEN GetOrCreateEventLoop
       ELSE UNCHANGED <<event_loop, thread_loop, loops>>
    /\ UNCHANGED closed

\* one more handle built if the engine's constructor returned one; the count
\* saturates at 2
CountBuild(n, init) == IF init = "ok" /\ n < 2 THEN n + 1 ELSE n

\* variant: no type check
IsAnyValue(value) == TRUE

\* isinstance(user_message, HumanMessage)
IsHumanMessage(value) == value.type = "HumanMessage"

\* a task object; tasks[i] is its state
PyTask(i) == [type |-> "Task", s |-> "", n |-> i]

\* a task asyncio.create_task made for _async_get_response(user_message) on
\* the loop that is running
PendingTask(loop, user_message) ==
    [loop |-> loop, status |-> "pending", message |-> user_message]

\* variant: the loop is never seen as running
IsRunningNever(loop) == FALSE

\* loop.is_running()
IsRunning(loop) == loop # 0 /\ loop = running

GetResponse(user_message, ext) ==
    IF ~IsHumanMessage(user_message)
    THEN /\ call' = CallRecord("get_response",
                               Error("TypeError",
                                     "user_message must be a HumanMessage",
                                     "controller"),
                               PyNone)
         /\ UNCHANGED <<config, handles, chat_history, loopState, builds,
                        callerState, hostState, fileState,
                        storeState, peerState>>
    ELSE /\ (NeedsEventLoop /\ CreatesEventLoop) => loops < MaxLoops
         /\ RunAsync
         /\ IF IsRunning(event_loop')
            THEN \* asyncio.create_task(coroutine); return task
                 /\ Len(tasks) < MaxTasks
                 /\ tasks' = Append(tasks, PendingTask(running, user_message))
                 /\ call' = CallRecord("get_response", NoError,
                                       PyTask(Len(tasks) + 1))
                 /\ UNCHANGED <<config, handles, chat_history, builds,
                                callerState, running, fileState,
                                storeState, peerState>>
            ELSE IF running # 0
            THEN \* run_until_complete(coroutine) on a loop that is not the
                 \* running one: asyncio refuses, the coroutine never runs
                 /\ call' = CallRecord("get_response",
                                       Error("RuntimeError",
                                             "Cannot run the event loop "
                                                 \o "while another loop "
                                                 \o "is running",
                                             "asyncio"),
                                       PyNone)
                 /\ UNCHANGED <<config, handles, chat_history, builds,
                                callerState, hostState, fileState,
                                storeState, peerState>>
            ELSE \* run_until_complete(coroutine)
                 LET r == AsyncGetResponse(user_message, ext) IN
                 /\ Len(chat_history) + 2 <= MaxHistory
                 /\ model' = r.built.model
                 /\ agent' = r.agent
                 /\ chat_history' = r.history
                 /\ builds' =
                        [model |-> CountBuild(builds.model,
                                              r.built.model_init),
                         agent |-> CountBuild(builds.agent,
                                              r.built.agent_init)]
                 /\ call' = [op |-> "get_response", err |-> r.err,
                             ret |-> r.ret,
                             model_init |-> r.built.model_init,
                             agent_init |-> r.built.agent_init,
                             invoked |-> r.sent.invoked,
                             input |-> r.sent.input,
                             thread_id |-> r.sent.thread_id]
                 /\ UNCHANGED <<config, callerState, hostState, fileState,
                                storeState, peerState>>

\* variant: the loop is closed and its tasks are left as they are
CancelNone(loop) == tasks

\* task.cancel() for every task of asyncio.all_tasks(loop): the tasks of
\* the loop that are not done.  The loop is closed right after, so a task
\* cancelled here never runs again.
CancelPending(loop) ==
    [i \in DOMAIN tasks |->
        IF tasks[i].loop = loop /\ tasks[i].status = "pending"
        THEN [tasks[i] EXCEPT !.status = "cancelled"]
        ELSE tasks[i]]

\* _cleanup_event_loop, the atexit handler: it runs on the synchronous side,
\* when no loop is running on the thread
CleanupEventLoop ==
    /\ running = 0
    /\ call' = CallRecord("_cleanup_event_loop", NoError, PyNone)
    /\ IF event_loop # 0 /\ ~IsClosed(event_loop)
       THEN /\ tasks' = CancelPending(event_loop)
            /\ closed' = closed \cup {event_loop}
       ELSE UNCHANGED <<closed, tasks>>
    /\ UNCHANGED <<config, handles, chat_history, event_loop, thread_loop,
                   loops, builds, callerState, running, fileState,
                   storeState, peerState>>

(***************************************************************************)
(* Re-entrant use.  A host coroutine runs on the thread's current event    *)
(* loop and calls the controller from there; the tasks the bridge creates  *)
(* run on that loop while it is running.  A loop other than the thread's   *)
(* current one running on the thread is not part of the model.             *)
(***************************************************************************)
\* the host starts the thread's current loop, or a new loop that it makes the
\* current one when the thread has none that is open
HostEntersLoop ==
    /\ running = 0
    /\ IF CreatesEventLoop
       THEN /\ loops < MaxLoops
            /\ loops' = loops + 1
            /\ thread_loop' = loops + 1
            /\ running' = loops + 1
       ELSE /\ running' = thread_loop
            /\ UNCHANGED <<loops, thread_loop>>
    /\ UNCHANGED <<config, handles, chat_history, event_loop, closed, builds,
                   call, callerState, tasks, fileState, storeState, peerState>>

\* the host's coroutine ends and the loop stops; tasks still pending stay
\* pending on the stopped loop
HostLeavesLoop ==
    /\ running # 0
    /\ running' = 0
    /\ UNCHANGED <<config, handles, chat_history, loopState, builds, call,
                   callerState, tasks, fileState, storeState, peerState>>

\* the running loop runs the i-th task to its end: _async_get_response with
\* the message the task was created for; its result or error stays in the
\* task
TaskRuns(i, ext) ==
    /\ i <= Len(tasks)
    /\ running # 0
    /\ tasks[i].loop = running
    /\ tasks[i].status = "pending"
    /\ Len(chat_history) + 2 <= MaxHistory
    /\ LET r == AsyncGetResponse(tasks[i].message, ext) IN
       /\ model' = r.built.model
       /\ agent' = r.agent
       /\ chat_history' = r.history
       /\ builds' = [model |-> CountBuild(builds.model, r.built.model_init),
                     agent |-> CountBuild(builds.agent, r.built.agent_init)]
       /\ call' = [op |-> "task", err |-> r.err, ret |-> r.ret,
                   model_init |-> r.built.model_init,
                   agent_init |-> r.built.agent_init,
                   invoked |-> r.sent.invoked, input |-> r.sent.input,
                   thread_id |-> r.sent.thread_id]
    /\ tasks' = [tasks EXCEPT ![i].status = "done"]
    /\ UNCHANGED <<config, loopState, callerState, running, fileState,
                   storeState, peerState>>

(***************************************************************************)
(* History access.  A list is an object: the controller's own list has the *)
(* identity InternalList and the items chat_history; every other list has  *)
(* a positive identity k and the items copies[k].                          *)
(***************************************************************************)
InternalList == 0

PyList(identity) == [type |-> "list", s |-> "", n |-> identity]

\* the items of a list
Items(identity) ==
    IF identity = InternalList THEN chat_history ELSE copies[identity]

\* variant: the list itself is returned
ListItself(fresh) == InternalList

\* list.copy(): a new list object
ListCopy(fresh) == fresh

GetChatHistory ==
    LET result == ListCopy(Len(copies) + 1) IN
    /\ Len(returned) < MaxReturned
    /\ returned' = Append(returned, result)
    /\ copies' = IF result = InternalList THEN copies
                 ELSE Append(copies, chat_history)
    /\ call' = CallRecord("get_chat_history", NoError, PyList(result))
    /\ UNCHANGED <<config, handles, chat_history, loopState, builds,
                   mutations, hostState, fileState, storeState, peerState>>

\* a message the caller made itself
CallerMessage == HumanMessage("x")

\* what the code that called get_chat_history can do to a list
ListMutations == {"append", "remove", "reorder", "replace"}

RECURSIVE Reverse(_)
Reverse(items) ==
    IF items = <<>> THEN <<>>
    ELSE Append(Reverse(Tail(items)), Head(items))

Mutated(items, kind) ==
    CASE kind = "append" -> Append(items, CallerMessage)
      [] kind = "remove" -> Tail(items)
      [] kind = "reorder" -> Reverse(items)
      [] kind = "replace" -> [items EXCEPT ![1] = CallerMessage]

\* the caller changes in place the i-th list it was given
CallerMutates(i, kind) ==
    LET target == returned[i]
        items == Mutated(Items(target), kind)
    IN  /\ i <= Len(returned)
        /\ mutations < MaxMutations
        /\ kind \in {"remove", "replace"} => Items(target) # <<>>
        /\ kind = "reorder" => Len(Items(target)) >= 2
        /\ mutations' = mutations + 1
        /\ IF target = InternalList
           THEN chat_history' = items /\ UNCHANGED copies
           ELSE /\ copies' = [copies EXCEPT ![target] = items]
                /\ UNCHANGED chat_history
        /\ UNCHANGED <<config, handles, loopState, builds, call, returned,
                       hostState, fileState, storeState, peerState>>

(***************************************************************************)
(* The bridge called on its own, with any argument, from synchronous code. *)
(***************************************************************************)
\* a coroutine object; s tells how it ends when it is run
PyCoroutine(outcome) == [type |-> "coroutine", s |-> outcome, n |-> 0]

BridgeInputs ==
    {PyInt(12345), PyNone, PyStr("not a coroutine"), PyCoroutine("return"),
     PyCoroutine("raise"), PyCoroutine("cancel")}

\* isinstance(coroutine, Coroutine)
IsCoroutine(value) == value.type = "coroutine"

\* what run_until_complete(coroutine) raises
CoroutineError(coroutine) ==
    IF coroutine.s = "raise"
    THEN Error("Exception", "coroutine failed", "coroutine")
    ELSE IF coroutine.s = "cancel"
    THEN Error("CancelledError", "", "coroutine")
    ELSE NoError

\* what run_until_complete(coroutine) returns
CoroutineResult(coroutine) ==
    IF coroutine.s = "return" THEN PyStr("result") ELSE PyNone

\* variant: the argument is checked after the event loop was fetched
RunAsyncDirectChecksLate(coroutine) ==
    /\ running = 0
    /\ (NeedsEventLoop /\ CreatesEventLoop) => loops < MaxLoops
    /\ RunAsync
    /\ IF ~IsCoroutine(coroutine)
       THEN call' = CallRecord("_run_async",
                               Error("TypeError", "Invalid coroutine type.",
                                     "controller"),
                               PyNone)
       ELSE call' = CallRecord("_run_async", CoroutineError(coroutine),
                               CoroutineResult(coroutine))
    /\ UNCHANGED <<config, handles, chat_history, builds, callerState,
                   hostState, fileState, storeState, peerState>>

\* _run_async(coroutine) called from synchronous code
RunAsyncDirect(coroutine) ==
    IF ~IsCoroutine(coroutine)
    THEN /\ call' = CallRecord("_run_async",
                               Error("TypeError", "Invalid coroutine type.",
                                     "controller"),
                               PyNone)
         /\ UNCHANGED <<config, handles, chat_history, loopState, builds,
                        callerState, hostState, fileState, storeState,
                        peerState>>
    ELSE /\ running = 0
         /\ (NeedsEventLoop /\ CreatesEventLoop) => loops < MaxLoops
         /\ RunAsync
         /\ call' = CallRecord("_run_async", CoroutineError(coroutine),
                               CoroutineResult(coroutine))
         /\ UNCHANGED <<config, handles, chat_history, builds, callerState,
                        hostState, fileState, storeState, peerState>>

(***************************************************************************)
(* A second controller used from the same thread.  Only the event loop it  *)
(* holds is part of the state: its bridge is the same code, run on its own *)
(* self._event_loop and on the same thread and loops.                      *)
(***************************************************************************)
\* _run_async of the second controller with a coroutine, from synchronous
\* code: lines 113-114, then run_until_complete
OtherRunAsync ==
    /\ running = 0
    /\ IF other_event_loop = 0 \/ IsClosed(other_event_loop)
       THEN IF CreatesEventLoop
            THEN /\ loops < MaxLoops
                 /\ loops' = loops + 1
                 /\ thread_loop' = loops + 1
                 /\ other_event_loop' = loops + 1
            ELSE /\ other_event_loop' = thread_loop
                 /\ UNCHANGED <<loops, thread_loop>>
       ELSE UNCHANGED <<other_event_loop, loops, thread_loop>>
    /\ UNCHANGED <<config, handles, chat_history, event_loop, closed, builds,
                   call, callerState, hostState, fileState, storeState>>

\* _cleanup_event_loop of the second controller
OtherCleanupEventLoop ==
    /\ running = 0
    /\ IF other_event_loop # 0 /\ ~IsClosed(other_event_loop)
       THEN /\ tasks' = CancelPending(other_event_loop)
            /\ closed' = closed \cup {other_event_loop}
       ELSE UNCHANGED <<closed, tasks>>
    /\ UNCHANGED <<config, handles, chat_history, event_loop, thread_loop,
                   loops, builds, call, callerState, running, fileState,
                   storeState, peerState>>

(***************************************************************************)
(* File store.  The argument of write_uploaded_files is a list of          *)
(* (filename, content) pairs, the argument of delete_uploaded_files a list *)
(* of filenames; an argument is a record of its runtime type and, for a    *)
(* list, its items.  The store is the set of the stored names.             *)
(***************************************************************************)
PyBytes(str) == [type |-> "bytes", s |-> str, n |-> 0]

\* a list argument, and an argument that is not a list
ListArg(items) == [type |-> "list", items |-> items]
NonListArg(value) == [type |-> value.type, items |-> <<>>]

\* the listing get_uploaded_files_list returns: the stored names (their
\* order is not part of the contract)
PyNameList(names) == [type |-> "list", s |-> "", n |-> 0, names |-> names]

FileNameInputs ==
    {PyStr("file1"), PyStr("file2"), PyStr("file3"), PyStr(""), PyInt(12345),
     PyNone}
FileContentInputs == {PyBytes("valid_content"), PyNone}
FileInputs == {<<f, c>> : f \in FileNameInputs, c \in FileContentInputs}

\* lists of one or two files with different names, and arguments that are
\* no list
WriteInputs ==
    {ListArg(<<x>>) : x \in FileInputs}
        \cup {ListArg(<<x, y>>) : x \in {<<PyStr("file1"),
                                           PyBytes("valid_content")>>},
                                  y \in {f \in FileInputs :
                                            f[1] # PyStr("file1")}}
        \cup {NonListArg(PyInt(12345)), NonListArg(PyNone)}

DeleteInputs ==
    {ListArg(<<x>>) : x \in FileNameInputs}
        \cup {ListArg(<<PyStr("file1"), y>>) :
                  y \in FileNameInputs \ {PyStr("file1")}}
        \cup {NonListArg(PyInt(12345)), NonListArg(PyNone)}

\* the names in a list of files
FileNames(files) == {files[i][1].s : i \in DOMAIN files}

\* variant: a stored name is overwritten without complaint
WriteUploadedFilesErrorOverwrites(files) ==
    IF files.type # "list"
    THEN Error("TypeError", "files must be a list", "controller")
    ELSE IF \E i \in DOMAIN files.items :
                \/ files.items[i][1].type # "str"
                \/ files.items[i][2].type # "bytes"
    THEN Error("TypeError", "filename must be a string and content bytes",
               "controller")
    ELSE IF \E i \in DOMAIN files.items : files.items[i][1].s = ""
    THEN Error("ValueError", "filename must not be empty", "controller")
    ELSE NoError

\* the error write_uploaded_files raises: a type error for an argument that
\* is no list, a filename that is no string or a content that is not bytes;
\* a value error for an empty filename; a runtime error if any filename is
\* already stored
WriteUploadedFilesError(files) ==
    IF files.type # "list"
    THEN Error("TypeError", "files must be a list", "controller")
    ELSE IF \E i \in DOMAIN files.items :
                \/ files.items[i][1].type # "str"
                \/ files.items[i][2].type # "bytes"
    THEN Error("TypeError", "filename must be a string and content bytes",
               "controller")
    ELSE IF \E i \in DOMAIN files.items : files.items[i][1].s = ""
    THEN Error("ValueError", "filename must not be empty", "controller")
    ELSE IF FileNames(files.items) \cap uploaded_files # {}
    THEN Error("RuntimeError", "file already exists", "controller")
    ELSE NoError

WriteUploadedFiles(files) ==
    LET err == WriteUploadedFilesError(files) IN
    /\ call' = CallRecord("write_uploaded_files", err, PyNone)
    /\ IF err.exc = "none"
       THEN /\ Cardinality(uploaded_files \cup FileNames(files.items))
                <= MaxFiles
            /\ uploaded_files' = uploaded_files \cup FileNames(files.items)
       ELSE UNCHANGED uploaded_files
    /\ UNCHANGED <<config, handles, chat_history, loopState, builds,
                   callerState, hostState, storeState, peerState>>

GetUploadedFilesList ==
    /\ call' = CallRecord("get_uploaded_files_list", NoError,
                          PyNameList(uploaded_files))
    /\ UNCHANGED <<config, handles, chat_history, loopState, builds,
                   callerState, hostState, fileState, storeState, peerState>>

\* the error delete_uploaded_files raises: a type error for an argument that
\* is no list or a filename that is no string; a value error for an empty
\* filename or one that is not stored
DeleteUploadedFilesError(filenames) ==
    IF filenames.type # "list"
    THEN Error("TypeError", "filenames must be a list", "controller")
    ELSE IF \E i \in DOMAIN filenames.items : filenames.items[i].type # "str"
    THEN Error("TypeError", "filename must be a string", "controller")
    ELSE IF \E i \in DOMAIN filenames.items : filenames.items[i].s = ""
    THEN Error("ValueError", "filename must not be empty", "controller")
    ELSE IF \E i \in DOMAIN filenames.items :
                filenames.items[i].s \notin uploaded_files
    THEN Error("ValueError", "file does not exist", "controller")
    ELSE NoError

DeleteUploadedFiles(filenames) ==
    LET err == DeleteUploadedFilesError(filenames) IN
    /\ call' = CallRecord("delete_uploaded_files", err, PyNone)
    /\ IF err.exc = "none"
       THEN uploaded_files' =
                uploaded_files \ {filenames.items[i].s :
                                     i \in DOMAIN filenames.items}
       ELSE UNCHANGED uploaded_files
    /\ UNCHANGED <<config, handles, chat_history, loopState, builds,
                   callerState, hostState, storeState, peerState>>

Next ==
    \/ \E v \in ProviderInputs : SetModelProvider(v)
    \/ \E v \in ModelNameInputs : SetModelName(v)
    \/ \E v \in TemperatureInputs : SetModelTemperature(v)
    \/ \E v \in SystemMessageInputs : SetSystemMessage(v)
    \/ \E a \in ApiKeyInputs : SetApiKey(a[1], a[2])
    \/ \E m \in UserMessageInputs, ext \in ExternalBehaviours :
            GetResponse(m, ext)
    \/ CleanupEventLoop

Spec == Init /\ [][Next]_vars

(***************************************************************************)
(* The configuration store alone: every setter with every argument, and    *)
(* every getter.                                                           *)
(***************************************************************************)
\* arguments of set_model_temperature: the interval's bounds as floating
\* values and as integers, a value inside, values just outside and far
\* outside, and values that are not numbers
ConfigTemperatureInputs ==
    TemperatureInputs
        \cup {PyInt(0), PyInt(-1), PyFloat(777), PyFloat(-FloatOne), PyNone}

\* arguments of get_api_key: providers with and without a key, a string that
\* is no provider, None, a value that is no string
ConfigApiKeyLookupInputs == ApiKeyLookupInputs \cup {PyInt(12345)}

\* arguments of set_model_name: a model of each provider, a model of no
\* provider, the empty string, a value that is no string, None
ConfigModelNameInputs ==
    ModelNameInputs \cup {PyStr("gpt-4"), PyStr("unsupported_model")}

\* a set of strings returned by the controller
PySet(items) == [type |-> "set", s |-> "", n |-> 0, items |-> items]

\* get_supported_providers
GetSupportedProviders ==
    Getter("get_supported_providers", PySet(SUPPORTED_PROVIDERS))

\* the models of a provider; the empty set for any other argument
SupportedModels(provider) ==
    IF provider.type = "str" /\ provider.s \in SUPPORTED_PROVIDERS
    THEN SUPPORTED_MODELS_BY_PROVIDER[provider.s]
    ELSE {}

\* get_supported_models_by_provider
GetSupportedModelsByProvider(provider) ==
    Getter("get_supported_models_by_provider",
           PySet(SupportedModels(provider)))

\* arguments of get_supported_models_by_provider: the settings page passes
\* the current provider, None when none is selected
SupportedLookupInputs ==
    {PyStr("openai"), PyStr("google_genai"), PyStr("anthropic"), PyNone}

NextConfig ==
    \/ \E v \in ProviderInputs : SetModelProvider(v)
    \/ \E v \in ConfigModelNameInputs : SetModelName(v)
    \/ \E v \in ConfigTemperatureInputs : SetModelTemperature(v)
    \/ \E v \in SystemMessageInputs : SetSystemMessage(v)
    \/ \E a \in ApiKeyInputs : SetApiKey(a[1], a[2])
    \/ GetModelProvider
    \/ GetModelName
    \/ GetModelTemperature
    \/ GetSystemMessage
    \/ \E p \in ConfigApiKeyLookupInputs : GetApiKey(p)
    \/ GetSupportedProviders
    \/ \E p \in SupportedLookupInputs : GetSupportedModelsByProvider(p)

SpecConfig == Init /\ [][NextConfig]_vars

(***************************************************************************)
(* Every operation of the controller, as the settings and chat views use   *)
(* it: a provider, a model and keys are entered, accepted or rejected,     *)
(* messages are sent, the settings and the history are read back.          *)
(***************************************************************************)
ViewProviderInputs == {PyStr("google_genai")}
ViewModelNameInputs == {PyStr("gemini-2.5-flash")}
ViewTemperatureInputs == {PyInt(1), PyInt(2)}
ViewSystemMessageInputs == {PyStr("Be brief.")}
ViewApiKeyInputs ==
    {<<PyStr("google_genai"), PyStr("k1")>>, <<PyStr("openai"), PyStr("k1")>>}
ViewApiKeyLookupInputs == {PyStr("google_genai")}

NextView ==
    \/ \E v \in ViewProviderInputs : SetModelProvider(v)
    \/ \E v \in ViewModelNameInputs : SetModelName(v)
    \/ \E v \in ViewTemperatureInputs : SetModelTemperature(v)
    \/ \E v \in ViewSystemMessageInputs : SetSystemMessage(v)
    \/ \E a \in ViewApiKeyInputs : SetApiKey(a[1], a[2])
    \/ \E m \in UserMessageInputs, ext \in ExternalBehaviours :
           GetResponse(m, ext)
    \/ CleanupEventLoop
    \/ GetModelProvider
    \/ GetModelName
    \/ GetModelTemperature
    \/ GetSystemMessage
    \/ \E p \in ViewApiKeyLookupInputs : GetApiKey(p)
    \/ GetChatHistory

SpecView == Init /\ [][NextView]_vars

(***************************************************************************)
(* The chat view and the lists it is given: one configuration is entered,  *)
(* messages are sent, the history is fetched and the caller changes the    *)
(* lists it received.                                                      *)
(***************************************************************************)
HistoryProviderInputs == {PyStr("google_genai")}
HistoryModelNameInputs == {PyStr("gemini-2.5-flash")}
HistoryApiKeyInputs == {<<PyStr("google_genai"), PyStr("k1")>>}

NextHistory ==
    \/ \E v \in HistoryProviderInputs : SetModelProvider(v)
    \/ \E v \in HistoryModelNameInputs : SetModelName(v)
    \/ \E a \in HistoryApiKeyInputs : SetApiKey(a[1], a[2])
    \/ \E m \in UserMessageInputs, ext \in ExternalBehaviours :
           GetResponse(m, ext)
    \/ GetChatHistory
    \/ \E i \in 1..MaxReturned, kind \in ListMutations :
           CallerMutates(i, kind)

SpecHistory == Init /\ [][NextHistory]_vars

(***************************************************************************)
(* The bridge: one configuration, get_response called from synchronous     *)
(* code and from a host coroutine, the tasks, and the teardown.            *)
(***************************************************************************)
NextBridge ==
    \/ \E v \in HistoryProviderInputs : SetModelProvider(v)
    \/ \E v \in HistoryModelNameInputs : SetModelName(v)
    \/ \E a \in HistoryApiKeyInputs : SetApiKey(a[1], a[2])
    \/ \E m \in UserMessageInputs, ext \in ExternalBehaviours :
           GetResponse(m, ext)
    \/ HostEntersLoop
    \/ HostLeavesLoop
    \/ \E i \in 1..MaxTasks, ext \in ExternalBehaviours : TaskRuns(i, ext)
    \/ CleanupEventLoop

SpecBridge == Init /\ [][NextBridge]_vars

(***************************************************************************)
(* The file store, beside one configuration entered on the settings page.  *)
(***************************************************************************)
NextFiles ==
    \/ \E v \in HistoryProviderInputs : SetModelProvider(v)
    \/ \E v \in HistoryModelNameInputs : SetModelName(v)
    \/ \E files \in WriteInputs : WriteUploadedFiles(files)
    \/ GetUploadedFilesList
    \/ \E filenames \in DeleteInputs : DeleteUploadedFiles(filenames)

SpecFiles == Init /\ [][NextFiles]_vars

(***************************************************************************)
(* The event loops of a thread: one configuration, get_response, the       *)
(* bridge called on its own, the teardown, and a second controller.        *)
(***************************************************************************)
NextLoops ==
    \/ \E v \in HistoryProviderInputs : SetModelProvider(v)
    \/ \E v \in HistoryModelNameInputs : SetModelName(v)
    \/ \E a \in HistoryApiKeyInputs : SetApiKey(a[1], a[2])
    \/ \E m \in UserMessageInputs, ext \in ExternalBehaviours :
           GetResponse(m, ext)
    \/ \E c \in BridgeInputs : RunAsyncDirect(c)
    \/ CleanupEventLoop
    \/ OtherRunAsync
    \/ OtherCleanupEventLoop

SpecLoops == Init /\ [][NextLoops]_vars
(***************************************************************************)
(* Properties.                                                             *)
(***************************************************************************)
SetterOps ==
    {"set_model_provider", "set_model_name", "set_model_temperature",
     "set_system_message", "set_api_key"}

\* the first configuration field _init_model finds missing
MissingField ==
    IF model_provider = PyNone THEN "Model provider is not set."
    ELSE IF model_name = PyNone THEN "Model name is not set."
    ELSE IF DictGet(api_key, model_provider, PyNone) = PyNone
    THEN "API key for model provider is not set."
    ELSE ""

\* C1: whenever get_response raises after its argument was validated (agent
\* construction fails, the agent call raises, or the agent's result has no
\* reply message), the chat history is exactly what it was before the call.
C1_FailedResponseKeepsHistory ==
    [][(call'.op = "get_response" /\ call'.err.exc \notin {"none", "TypeError"})
        => chat_history' = chat_history]_vars

\* C2: a successful get_response(m) leaves the history equal to the history
\* before the call followed by m and then the reply (the last element of the
\* agent's message list), and returns that reply.
C2_SuccessAppendsPair ==
    [][(call'.op = "get_response" /\ call'.err.exc = "none") =>
        \A m \in UserMessageInputs, ext \in ExternalBehaviours :
            GetResponse(m, ext)
            => /\ chat_history' = chat_history \o <<m, ext.reply>>
               /\ call'.ret = ext.reply]_vars

C2_Witness ==
    /\ call.op = "get_response"
    /\ call.err.exc = "none"
    /\ Len(chat_history) = 3
    /\ call.ret = chat_history[3]

\* C3: in every reachable state a set model handle was built from the current
\* provider, model name, temperature and the current provider's API key, and
\* a set agent handle from the current model handle and system message.
C3_HandlesMatchConfiguration ==
    /\ model # PyNone =>
          model = ModelHandle(model_provider, model_name, model_temperature,
                              DictGet(api_key, model_provider, PyNone))
    /\ agent # PyNone => agent = AgentHandle(model, system_message)

C3_Witness ==
    /\ agent # PyNone
    /\ model # PyNone
    /\ system_message # DefaultSystemMessage
    /\ model_temperature # PyFloat(0)
    /\ DictGet(api_key, model_provider, PyNone) = PyStr("k2")

\* C4: in every reachable state, a set model name implies a set provider whose
\* supported-model set contains the model name.
C4_ModelNameBelongsToProvider ==
    model_name # PyNone =>
        /\ model_provider # PyNone
        /\ model_provider.s \in SUPPORTED_PROVIDERS
        /\ model_name.s \in SUPPORTED_MODELS_BY_PROVIDER[model_provider.s]

C4_Witness ==
    /\ model_name = PyStr("gpt-4o")
    /\ model_provider = PyStr("openai")
    /\ DictGet(api_key, PyStr("google_genai"), PyNone) # PyNone
    /\ Len(chat_history) >= 2

\* C5: a successful set_model_provider(v) with v different from the current
\* provider unsets the model name, the model handle and the agent handle,
\* for every v including None.
C5_ProviderChangeClears ==
    [][(call'.op = "set_model_provider" /\ call'.err.exc = "none") =>
        \A v \in ProviderInputs :
            (v # model_provider /\ SetModelProvider(v))
            => /\ model_provider' = v
               /\ model_name' = PyNone
               /\ model' = PyNone
               /\ agent' = PyNone]_vars

C5_Witness ==
    /\ call.op = "set_model_provider"
    /\ call.err.exc = "none"
    /\ model_provider = PyNone
    /\ model_name = PyNone
    /\ agent = PyNone
    /\ Len(chat_history) >= 2

\* C6: whenever a setter raises a type or value error, the whole controller
\* state (configuration, API keys, handles, history, event loop) is unchanged.
C6_RejectedSetterChangesNothing ==
    [][(call'.op \in SetterOps /\ call'.err.exc \in {"TypeError", "ValueError"})
        => UNCHANGED <<config, handles, chat_history, loopState>>]_vars

C6_Witness ==
    /\ call.op \in SetterOps
    /\ call.err.exc \in {"TypeError", "ValueError"}
    /\ agent # PyNone
    /\ chat_history # <<>>

\* C7: set_model_name raises a type error for every argument that is neither
\* a string nor None, whether or not a provider is set, and leaves the model
\* name unchanged.
C7_ModelNameTypeCheckedFirst ==
    [][call'.op = "set_model_name" =>
        \A v \in ModelNameInputs :
            (v.type \notin {"str", "NoneType"} /\ SetModelName(v))
            => /\ call'.err.exc = "TypeError"
               /\ model_name' = model_name]_vars

\* C8: get_response with an argument that is not a user message raises a
\* type error and changes nothing: history, configuration, handles and event
\* loop are as before, and nothing is constructed or invoked.
C8_NonMessageRejected ==
    [][call'.op = "get_response" =>
        \A m \in UserMessageInputs, ext \in ExternalBehaviours :
            (m.type # "HumanMessage" /\ GetResponse(m, ext))
            => /\ call'.err.exc = "TypeError"
               /\ UNCHANGED <<config, handles, chat_history, loopState>>
               /\ call'.model_init = "none"
               /\ call'.agent_init = "none"
               /\ ~call'.invoked]_vars

C8_Witness ==
    /\ call.op = "get_response"
    /\ call.err.exc = "TypeError"
    /\ agent # PyNone
    /\ chat_history # <<>>

\* C9: when the model handle is unset and the provider, the model name or the
\* current provider's API key is missing, get_response raises a value error
\* naming the first missing field (provider, then model name, then API key),
\* invokes no agent, leaves both handles unset and the history unchanged.
C9_MissingConfigurationRejected ==
    [][(call'.op = "get_response" /\ model = PyNone /\ MissingField # "") =>
        \A m \in UserMessageInputs, ext \in ExternalBehaviours :
            (m.type = "HumanMessage" /\ GetResponse(m, ext))
            => /\ call'.err.exc = "ValueError"
               /\ call'.err.msg = MissingField
               /\ ~call'.invoked
               /\ call'.model_init = "none"
               /\ call'.agent_init = "none"
               /\ model' = PyNone
               /\ agent' = PyNone
               /\ chat_history' = chat_history]_vars

C9_Witness ==
    /\ call.op = "get_response"
    /\ call.err.exc = "ValueError"
    /\ call.err.msg = "API key for model provider is not set."
    /\ model_name # PyNone

\* C10: handles are rebuilt only when unset: a get_response that starts with
\* the agent handle set constructs nothing and leaves both handles identical,
\* one that starts with the model handle set constructs no model, and between
\* two changes of the configuration each handle is built at most once.
C10_RebuildOnlyWhenUnset ==
    /\ [][call'.op = "get_response" =>
            /\ agent # PyNone =>
                  /\ call'.model_init = "none"
                  /\ call'.agent_init = "none"
                  /\ model' = model
                  /\ agent' = agent
            /\ model # PyNone =>
                  /\ call'.model_init = "none"
                  /\ model' = model]_vars
    /\ [](builds.model <= 1 /\ builds.agent <= 1)

C10_Witness ==
    /\ call.op = "get_response"
    /\ call.err.exc = "none"
    /\ call.model_init = "none"
    /\ call.agent_init = "none"
    /\ builds = [model |-> 1, agent |-> 1]

\* C11: a failed construction is never cached.  After a get_response in which
\* model construction fails (a configuration field is missing or
\* init_chat_model raises) both handles are unset; after one in which
\* create_react_agent raises the agent handle is unset; and every get_response
\* that receives a message while the agent handle is unset attempts
\* construction again: the model is constructed when it is unset and the
\* configuration is complete, the agent whenever a model is at hand, and what
\* is built is built from the configuration of that moment.
C11_FailedConstructionNotCached ==
    [][call'.op = "get_response" =>
        /\ (call'.model_init = "fail"
               \/ (call'.err.exc = "ValueError" /\ call'.err.msg = MissingField
                      /\ MissingField # ""))
              => model' = PyNone /\ agent' = PyNone
        /\ call'.agent_init = "fail" => agent' = PyNone
        /\ (agent = PyNone /\ call'.err.exc # "TypeError") =>
              /\ (model = PyNone /\ MissingField = "")
                    => call'.model_init \in {"ok", "fail"}
              /\ (model # PyNone \/ call'.model_init = "ok")
                    => call'.agent_init \in {"ok", "fail"}
              /\ call'.model_init = "ok" =>
                    model' = ModelHandle(model_provider', model_name',
                                         model_temperature',
                                         api_key'[model_provider'])
              /\ call'.agent_init = "ok" =>
                    agent' = AgentHandle(model', system_message')]_vars

\* a get_response that built the agent on a model cached by an earlier call,
\* whose agent construction had failed
C11_Witness ==
    /\ call.op = "get_response"
    /\ call.model_init = "none"
    /\ call.agent_init = "ok"
    /\ builds = [model |-> 1, agent |-> 1]
    /\ system_message # DefaultSystemMessage

\* some set handle is unset by the step
UnsetsHandle ==
    \/ model # PyNone /\ model' = PyNone
    \/ agent # PyNone /\ agent' = PyNone

\* C12 as stated: a set handle becomes unset only through a setter call that
\* changes the provider, the model name, the temperature, the system message
\* or the API key of the currently configured provider; every other operation
\* (in particular set_api_key for another provider) leaves set handles set.
C12_UnsetOnlyByDependencyChange ==
    [][UnsetsHandle =>
        /\ call'.op \in SetterOps
        /\ call'.err.exc = "none"
        /\ \/ model_provider' # model_provider
           \/ model_name' # model_name
           \/ model_temperature' # model_temperature
           \/ system_message' # system_message
           \/ DictGet(api_key', model_provider, PyNone)
                  # DictGet(api_key, model_provider, PyNone)]_vars

\* C12 amended: a set handle becomes unset only through a successful setter
\* call that changes the provider, the model name, the temperature, the system
\* message or the stored API key of any supported provider, the configured
\* one or another; getters, get_chat_history, get_response, teardown,
\* rejected setter calls and setter calls with the current value leave set
\* handles set.
C12_UnsetOnlyByConfigurationChange ==
    [][UnsetsHandle =>
        /\ call'.op \in SetterOps
        /\ call'.err.exc = "none"
        /\ \/ model_provider' # model_provider
           \/ model_name' # model_name
           \/ model_temperature' # model_temperature
           \/ system_message' # system_message
           \/ \E p \in SUPPORTED_PROVIDERS :
                  DictGet(api_key', PyStr(p), PyNone)
                      # DictGet(api_key, PyStr(p), PyNone)]_vars

\* a key stored for the provider that is not configured has unset the handles
\* a response had built
C12_Witness ==
    /\ call.op = "set_api_key"
    /\ call.err.exc = "none"
    /\ model_provider = PyStr("google_genai")
    /\ model_name # PyNone
    /\ DictGet(api_key, PyStr("google_genai"), PyNone) # PyNone
    /\ DictGet(api_key, PyStr("openai"), PyNone) # PyNone
    /\ model = PyNone
    /\ agent = PyNone
    /\ builds = [model |-> 0, agent |-> 0]
    /\ Len(chat_history) = 2

\* the sequence before is an initial part of the sequence after
IsPrefix(before, after) ==
    /\ Len(before) <= Len(after)
    /\ SubSeq(after, 1, Len(before)) = before

\* C13: the history is append-only: across every setter, getter (the history
\* getter included), successful or failed get_response and teardown, the
\* history before the operation is a prefix of the history after it.
C13_HistoryAppendOnly ==
    [][IsPrefix(chat_history, chat_history')]_vars

\* a new system message has unset the handles that produced a conversation,
\* and the conversation is still there
C13_Witness ==
    /\ call.op = "set_system_message"
    /\ call.err.exc = "none"
    /\ builds = [model |-> 0, agent |-> 0]
    /\ agent = PyNone
    /\ Len(chat_history) = 2
    /\ chat_history[2].type = "AIMessage"
    /\ closed # {}

\* C14: get_chat_history returns a copy.  Whatever the caller does to a list
\* it was given (append, remove, reorder, replace), the controller's history
\* stays as it was; every call returns a list whose items are the
\* controller's history of that moment and changes nothing in the
\* controller; and no call returns the controller's own list or a list
\* returned before.
C14_HistoryReturnedAsCopy ==
    /\ [][\A i \in 1..MaxReturned, kind \in ListMutations :
             CallerMutates(i, kind) => chat_history' = chat_history]_vars
    /\ [][returned' # returned =>
             /\ call'.op = "get_chat_history"
             /\ call'.err.exc = "none"
             /\ call'.ret = PyList(returned'[Len(returned')])
             /\ (IF call'.ret.n = InternalList THEN chat_history'
                 ELSE copies'[call'.ret.n]) = chat_history
             /\ UNCHANGED <<config, handles, chat_history, loopState>>]_vars
    /\ [](\A i, j \in 1..Len(returned) :
             /\ returned[i] # InternalList
             /\ i # j => returned[i] # returned[j])

\* the caller holds two lists of a conversation and has appended to the
\* first; the second has the items of the controller's history
C14_Witness ==
    /\ Len(returned) = 2
    /\ mutations = 1
    /\ Len(chat_history) = 2
    /\ copies[returned[1]] = Append(chat_history, CallerMessage)
    /\ copies[returned[2]] = chat_history
    /\ call.op = "get_chat_history"

\* C15: set-then-get round trip.  From every state, a setter that succeeds
\* with argument v leaves the controller in a state whose matching getter
\* returns v: the provider, the model name and the system message as given,
\* the temperature as the floating value of v, and for set_api_key(P, key)
\* get_api_key(P) returns key.
C15_SetThenGetRoundTrip ==
    [][/\ (call'.op = "set_model_provider" /\ call'.err.exc = "none") =>
             \A v \in ProviderInputs :
                 SetModelProvider(v) => model_provider' = v
       /\ (call'.op = "set_model_name" /\ call'.err.exc = "none") =>
             \A v \in ConfigModelNameInputs :
                 SetModelName(v) => model_name' = v
       /\ (call'.op = "set_model_temperature" /\ call'.err.exc = "none") =>
             \A v \in ConfigTemperatureInputs :
                 SetModelTemperature(v) =>
                     model_temperature' =
                         IF v.type = "int" THEN PyFloat(v.n * FloatOne)
                         ELSE v
       /\ (call'.op = "set_system_message" /\ call'.err.exc = "none") =>
             \A v \in SystemMessageInputs :
                 SetSystemMessage(v) => system_message' = v
       /\ (call'.op = "set_api_key" /\ call'.err.exc = "none") =>
             \A a \in ApiKeyInputs :
                 SetApiKey(a[1], a[2]) =>
                     DictGet(api_key', a[1], PyNone) = a[2]
       /\ call'.op = "get_model_provider" => call'.ret = model_provider
       /\ call'.op = "get_model_name" => call'.ret = model_name
       /\ call'.op = "get_model_temperature" => call'.ret = model_temperature
       /\ call'.op = "get_system_message" => call'.ret = system_message
       /\ call'.op = "get_api_key" =>
             \A p \in ConfigApiKeyLookupInputs :
                 GetApiKey(p) => call'.ret = DictGet(api_key, p, PyNone)]_vars

\* get_model_temperature returns the floating 1.0 that a set_model_temperature
\* stored
C15_Witness ==
    /\ call.op = "get_model_temperature"
    /\ call.ret = PyFloat(FloatOne)
    /\ call.ret = model_temperature
    /\ model_name # PyNone
    /\ DictGet(api_key, model_provider, PyNone) = PyStr("k2")

\* C16: set_model_provider classifies its errors: an argument that is neither
\* a string nor None raises a type error, a string outside {openai,
\* google_genai}, the empty string included, raises a value error, and in
\* both cases the provider stays what it was, which is what
\* get_model_provider returns.
C16_ProviderErrorsClassified ==
    [][/\ call'.op = "set_model_provider" =>
             \A v \in ProviderInputs :
                 SetModelProvider(v) =>
                     /\ v.type \notin {"str", "NoneType"} =>
                           /\ call'.err.exc = "TypeError"
                           /\ model_provider' = model_provider
                     /\ (v.type = "str"
                            /\ v.s \notin {"openai", "google_genai"}) =>
                           /\ call'.err.exc = "ValueError"
                           /\ model_provider' = model_provider
       /\ call'.op = "get_model_provider" =>
             /\ call'.ret = model_provider
             /\ call'.err.exc = "none"]_vars

\* an unsupported provider was rejected and the provider chosen before, with
\* its model, is still there
C16_Witness ==
    /\ call.op = "set_model_provider"
    /\ call.err.exc = "ValueError"
    /\ call.err.msg = "Model provider is not supported."
    /\ model_provider = PyStr("openai")
    /\ model_name = PyStr("gpt-4o")

\* C17: with a provider set, set_model_name(n) for a string n outside that
\* provider's supported models (a model of another provider and the empty
\* string included) raises a value error and leaves the model name as it
\* was.
C17_ForeignModelRejected ==
    [][(call'.op = "set_model_name" /\ model_provider # PyNone) =>
          \A v \in ConfigModelNameInputs :
              (/\ v.type = "str"
               /\ v.s \notin SUPPORTED_MODELS_BY_PROVIDER[model_provider.s]
               /\ SetModelName(v))
              => /\ call'.err.exc = "ValueError"
                 /\ model_name' = model_name]_vars

\* a model of another provider was rejected and the model chosen before is
\* still there
C17_Witness ==
    /\ call.op = "set_model_name"
    /\ call.err.exc = "ValueError"
    /\ call.err.msg = "Model is not supported."
    /\ model_provider = PyStr("google_genai")
    /\ model_name = PyStr("gemini-2.5-flash")

\* C18: with no provider set, set_model_name(s) raises a value error for
\* every string s, a supported model of some provider or not, and leaves the
\* model name unset, while set_model_name(None) succeeds.
C18_NoProviderNoModel ==
    [][(call'.op = "set_model_name" /\ model_provider = PyNone) =>
          \A v \in ConfigModelNameInputs :
              SetModelName(v) =>
                  /\ v.type = "str" =>
                        /\ call'.err.exc = "ValueError"
                        /\ model_name' = PyNone
                  /\ v = PyNone =>
                        /\ call'.err.exc = "none"
                        /\ model_name' = PyNone]_vars

\* a model name was rejected for want of a provider, after a provider had
\* been set and unset again
C18_Witness ==
    /\ call.op = "set_model_name"
    /\ call.err.exc = "ValueError"
    /\ call.err.msg
          = "Model provider must be set before setting the model name."
    /\ model_provider = PyNone
    /\ model_name = PyNone
    /\ DictGet(api_key, PyStr("openai"), PyNone) # PyNone

\* C19: set_model_temperature accepts exactly the closed interval [0.0, 1.0]:
\* a number in the interval, the bounds 0.0 and 1.0 and the integers 0 and 1
\* included, is accepted and stored as a floating value; a number below 0.0
\* or above 1.0 raises a value error; an argument that is no number raises a
\* type error; and a rejected call leaves the stored temperature unchanged.
C19_TemperatureClosedInterval ==
    [][call'.op = "set_model_temperature" =>
          \A v \in ConfigTemperatureInputs :
              SetModelTemperature(v) =>
                  LET numeric == v.type \in {"int", "float"}
                      x == IF v.type = "int" THEN v.n * FloatOne ELSE v.n
                  IN  /\ (numeric /\ 0 <= x /\ x <= FloatOne) =>
                            /\ call'.err.exc = "none"
                            /\ model_temperature' = PyFloat(x)
                      /\ (numeric /\ (x < 0 \/ x > FloatOne)) =>
                            /\ call'.err.exc = "ValueError"
                            /\ model_temperature' = model_temperature
                      /\ ~numeric =>
                            /\ call'.err.exc = "TypeError"
                            /\ model_temperature' = model_temperature]_vars

\* a number outside the interval was rejected and the temperature stored
\* before, a value inside the interval, is still there
C19_Witness ==
    /\ call.op = "set_model_temperature"
    /\ call.err.exc = "ValueError"
    /\ model_temperature = PyFloat(777)

\* C20: get_api_key never raises and never changes state, whatever hashable
\* argument it is given: for a provider with a stored key it returns that
\* key, and for every other argument (a supported provider without a key, a
\* string that is no provider, None, a number) it returns None.
C20_GetApiKeyTotal ==
    [][call'.op = "get_api_key" =>
          \A p \in ConfigApiKeyLookupInputs :
              GetApiKey(p) =>
                  /\ call'.err.exc = "none"
                  /\ UNCHANGED <<config, handles, chat_history, loopState>>
                  /\ call'.ret =
                        IF p \in DOMAIN api_key THEN api_key[p] ELSE PyNone
                  /\ (p.type # "str" \/ p.s \notin SUPPORTED_PROVIDERS)
                        => call'.ret = PyNone]_vars

\* get_api_key returned None for an argument without a key while keys of
\* both providers are stored
C20_Witness ==
    /\ call.op = "get_api_key"
    /\ call.ret = PyNone
    /\ call.err.exc = "none"
    /\ DictGet(api_key, PyStr("openai"), PyNone) = PyStr("k1")
    /\ DictGet(api_key, PyStr("google_genai"), PyNone) = PyStr("k2")

C22_ContextReused ==
    [][/\ call'.op = "get_response" =>
             /\ (event_loop # 0 /\ event_loop \notin closed) =>
                   /\ event_loop' = event_loop
                   /\ loops' = loops
             /\ event_loop' # event_loop =>
                   (event_loop = 0 \/ event_loop \in closed)
             /\ call'.err.exc # "TypeError" =>
                   (event_loop' # 0 /\ event_loop' \notin closed')
             /\ closed' = closed
       /\ call'.op # "get_response" => event_loop' = event_loop
       /\ closed' # closed => call'.op = "_cleanup_event_loop"]_vars

\* a second loop was obtained after teardown closed the first, and a reply
\* was produced on it
C22_Witness ==
    /\ call.op = "get_response"
    /\ call.err.exc = "none"
    /\ event_loop = 2
    /\ closed = {1}
    /\ builds = [model |-> 1, agent |-> 1]

C28_ResponseCycle ==
    [][call'.op = "get_response" =>
          /\ (call'.model_init # "none" \/ call'.agent_init # "none") =>
                agent = PyNone
          /\ call'.invoked =>
                \/ agent # PyNone /\ call'.agent_init = "none"
                \/ agent = PyNone /\ call'.agent_init = "ok"
          /\ (call'.err.exc = "none") = (call'.ret # PyNone)
          /\ chat_history' # chat_history => call'.err.exc = "none"]_vars

\* C29: a get_response rejected because the provider, the model name or
\* the API key is missing has no side effect: no event loop is created or
\* fetched by the call and the loop the controller holds is the one it held
\* before, as are the configuration, the handles and the history
C29_MissingConfigNoSideEffect ==
    [][(/\ call'.op = "get_response"
        /\ call'.err.exc = "ValueError"
        /\ agent = PyNone
        /\ MissingField # "") =>
          /\ call'.err.msg = MissingField
          /\ ~call'.invoked
          /\ UNCHANGED <<config, handles, chat_history, builds>>
          /\ UNCHANGED loopState]_vars

\* C23: teardown cancels every task still pending on the loop the
\* controller holds and then closes that loop; when the loop is already
\* closed or none was ever created it does nothing and raises nothing; a
\* loop is closed only by teardown, only while it is open, and no closed
\* loop is left with a pending task
C23_TeardownCancelsThenCloses ==
    [][/\ CleanupEventLoop =>
            /\ call'.err = NoError
            /\ IF event_loop # 0 /\ event_loop \notin closed
               THEN /\ closed' = closed \cup {event_loop}
                    /\ DOMAIN tasks' = DOMAIN tasks
                    /\ \A i \in DOMAIN tasks :
                          IF /\ tasks[i].loop = event_loop
                             /\ tasks[i].status = "pending"
                          THEN /\ tasks'[i].status = "cancelled"
                               /\ tasks'[i].loop = tasks[i].loop
                          ELSE tasks'[i] = tasks[i]
               ELSE UNCHANGED <<closed, tasks>>
            /\ UNCHANGED <<config, handles, chat_history, event_loop,
                           thread_loop, loops, builds, running>>
       /\ closed' # closed =>
            /\ call'.op = "_cleanup_event_loop"
            /\ event_loop \notin closed
            /\ closed' = closed \cup {event_loop}
       /\ \A i \in DOMAIN tasks' :
            tasks'[i].loop \in closed' => tasks'[i].status # "pending"]_vars

\* teardown has closed the controller's loop and cancelled a task that was
\* pending on it, while another task had run to its end
C23_Witness ==
    /\ call.op = "_cleanup_event_loop"
    /\ event_loop \in closed
    /\ \E i \in DOMAIN tasks :
          tasks[i].loop = event_loop /\ tasks[i].status = "cancelled"
    /\ \E i \in DOMAIN tasks : tasks[i].status = "done"

WellFormed(files) ==
    /\ files.type = "list"
    /\ \A i \in DOMAIN files.items :
          /\ files.items[i][1].type = "str"
          /\ files.items[i][1].s # ""
          /\ files.items[i][2].type = "bytes"

\* C26: once write_uploaded_files has stored some filenames, a
\* write_uploaded_files call whose list holds any filename already stored
\* raises a runtime error, and get_uploaded_files_list returns the same
\* listing as before that call
C26_ReuploadRejected ==
    [][/\ \A files \in WriteInputs :
            (/\ WellFormed(files)
             /\ FileNames(files.items) \cap uploaded_files # {}
             /\ WriteUploadedFiles(files)) =>
                /\ call'.err.exc = "RuntimeError"
                /\ uploaded_files' = uploaded_files
       /\ GetUploadedFilesList => call'.ret = PyNameList(uploaded_files)
       /\ (/\ call.op = "write_uploaded_files"
           /\ call.err.exc = "RuntimeError"
           /\ GetUploadedFilesList) =>
                /\ call'.ret.names = uploaded_files
                /\ call'.ret.names # {}]_vars

\* file1 and file2 are stored and a call that uploaded file1 again, together
\* with a new file, was rejected
C26_Witness ==
    /\ call.op = "write_uploaded_files"
    /\ call.err.exc = "RuntimeError"
    /\ uploaded_files = {"file1", "file2"}

C31_ApiKeyTypeCheckedFirst ==
    [][call'.op = "set_api_key" =>
        \A a \in ApiKeyInputs :
            (a[2].type # "str" /\ SetApiKey(a[1], a[2]))
            => /\ call'.err.exc = "TypeError"
               /\ api_key' = api_key]_vars

\* C32: a setter called with a valid value equal to the current one raises
\* nothing and changes nothing: set_model_provider with the current provider
\* (None when unset) keeps the model name, and no setter called with the
\* current value (set_api_key with the key stored for that provider
\* included) unsets a handle or changes any field
C32_SetCurrentValueIsNoOp ==
    [][call'.op \in SetterOps =>
        LET same == /\ call'.err = NoError
                    /\ UNCHANGED <<config, handles, chat_history, loopState,
                                   builds>>
        IN  /\ call'.op = "set_model_provider" =>
                  \A v \in ProviderInputs :
                      (v = model_provider /\ SetModelProvider(v)) => same
            /\ call'.op = "set_model_name" =>
                  \A v \in ModelNameInputs :
                      (v = model_name /\ SetModelName(v)) => same
            /\ call'.op = "set_model_temperature" =>
                  \A v \in TemperatureInputs :
                      (/\ v.type \in {"int", "float"}
                       /\ ToFloat(v) = model_temperature
                       /\ SetModelTemperature(v)) => same
            /\ call'.op = "set_system_message" =>
                  \A v \in SystemMessageInputs :
                      (v = system_message /\ SetSystemMessage(v)) => same
            /\ call'.op = "set_api_key" =>
                  \A a \in ApiKeyInputs :
                      (/\ a[1] \in DOMAIN api_key
                       /\ api_key[a[1]] = a[2]
                       /\ SetApiKey(a[1], a[2])) => same]_vars

\* set_model_provider was called with the current provider while a model
\* name was set and both handles were built: all of them are still there
C32_Witness ==
    /\ call.op = "set_model_provider"
    /\ call.err = NoError
    /\ model_provider # PyNone
    /\ model_name # PyNone
    /\ model # PyNone
    /\ agent # PyNone

\* C33: a successful setter changes only its own field, the model name as
\* well when the provider changes, and the handles: set_api_key(P, k)
\* leaves the keys of the other providers and the four other fields alone;
\* set_model_name, set_model_temperature and set_system_message leave every
\* other field and all keys alone; set_model_provider leaves temperature,
\* system message and all keys alone; no setter changes the history
C33_SetterFrame ==
    [][(call'.op \in SetterOps /\ call'.err = NoError) =>
        /\ chat_history' = chat_history
        /\ call'.op = "set_model_provider" =>
              /\ UNCHANGED <<model_temperature, system_message, api_key>>
              /\ model_name' # model_name => model_provider' # model_provider
        /\ call'.op = "set_model_name" =>
              UNCHANGED <<model_provider, model_temperature, system_message,
                          api_key>>
        /\ call'.op = "set_model_temperature" =>
              UNCHANGED <<model_provider, model_name, system_message,
                          api_key>>
        /\ call'.op = "set_system_message" =>
              UNCHANGED <<model_provider, model_name, model_temperature,
                          api_key>>
        /\ call'.op = "set_api_key" =>
              /\ UNCHANGED <<model_provider, model_name, model_temperature,
                             system_message>>
              /\ \A a \in ApiKeyInputs :
                    SetApiKey(a[1], a[2]) =>
                        /\ DOMAIN api_key' = DOMAIN api_key \cup {a[1]}
                        /\ \A k \in DOMAIN api_key \ {a[1]} :
                              api_key'[k] = api_key[k]]_vars

\* a key was just stored for openai while google_genai keeps its own key and
\* the provider and model name entered before are still set
C33_Witness ==
    /\ call.op = "set_api_key"
    /\ call.err = NoError
    /\ model = PyNone
    /\ PyStr("openai") \in DOMAIN api_key
    /\ PyStr("google_genai") \in DOMAIN api_key
    /\ api_key[PyStr("google_genai")] = PyStr("k2")
    /\ model_name # PyNone
    /\ chat_history # <<>>

\* C34: in every reachable state the stored configuration is in its domain:
\* the provider is unset or a supported provider, the temperature is a float
\* in [0.0, 1.0], the system message is a non-empty string, and every stored
\* API key is a non-empty string filed under a supported provider
C34_ConfigurationInDomain ==
    /\ \/ model_provider = PyNone
       \/ /\ model_provider.type = "str"
          /\ model_provider.s \in {"openai", "google_genai"}
    /\ model_temperature.type = "float"
    /\ 0 <= model_temperature.n
    /\ model_temperature.n <= FloatOne
    /\ system_message.type = "str"
    /\ system_message.s # ""
    /\ \A k \in DOMAIN api_key :
          /\ k.type = "str"
          /\ k.s \in {"openai", "google_genai"}
          /\ api_key[k].type = "str"
          /\ api_key[k].s # ""

\* every field has been changed from its initial value, after rejected calls
C34_Witness ==
    /\ call.op = "set_system_message"
    /\ call.err.exc = "ValueError"
    /\ model_provider = PyStr("openai")
    /\ model_temperature = PyFloat(FloatOne)
    /\ system_message = PyStr("Be brief.")
    /\ DOMAIN api_key = {PyStr("openai"), PyStr("google_genai")}

\* C35: in every reachable state the history consists of whole (user,
\* assistant) pairs: its length is even, every entry at an even position
\* (counted from 0) is a user message passed to get_response, and the entry
\* after it is the reply of that call
C35_HistoryWholePairs ==
    /\ Len(chat_history) % 2 = 0
    /\ \A i \in DOMAIN chat_history :
          IF i % 2 = 1
          THEN /\ IsHumanMessage(chat_history[i])
               /\ chat_history[i] \in UserMessageInputs
          ELSE /\ chat_history[i] \in Replies
               /\ chat_history[i].type = "AIMessage"

\* C36: the agent handle is set only while the model handle is set: every
\* step that unsets the model unsets the agent, and the agent is assigned
\* only by a get_response whose agent construction succeeded, with the model
\* built
C36_AgentImpliesModel ==
    [][/\ agent' # PyNone => model' # PyNone
       /\ (model # PyNone /\ model' = PyNone) => agent' = PyNone
       /\ (agent # PyNone /\ agent' = PyNone) => model' = PyNone
       /\ (agent = PyNone /\ agent' # PyNone) =>
             /\ call'.op = "get_response"
             /\ call'.agent_init = "ok"
             /\ agent'.model = model']_vars

\* the agent was assigned by a call that found the model already built: an
\* earlier call had built the model and failed to construct the agent
C36_Witness ==
    /\ call.op = "get_response"
    /\ call.model_init = "none"
    /\ call.agent_init = "ok"
    /\ agent # PyNone
    /\ agent.model = model
    /\ model # PyNone

\* C37: the checkpoint store and the session identifier are fixed for the
\* life of the controller: no step clears or replaces the store, every agent
\* the controller builds is given that store, and every invocation is
\* addressed to the same thread id
C37_CheckpointStoreFixed ==
    [][/\ checkpointer' = checkpointer
       /\ checkpointer' = InMemorySaver
       /\ agent' # PyNone => agent'.checkpointer = checkpointer
       /\ (call'.op = "get_response" /\ call'.invoked) =>
             call'.thread_id = "1"]_vars

\* an agent was built again, after the configuration had changed, on a
\* controller whose earlier agent had been invoked; it got the same store
C37_Witness ==
    /\ call.op = "get_response"
    /\ call.agent_init = "ok"
    /\ call.invoked
    /\ call.thread_id = "1"
    /\ Len(chat_history) = 3
    /\ system_message = PyStr("Be brief.")
    /\ agent.checkpointer = checkpointer

\* C38: two controllers used from the same thread never hold the same event
\* loop, so the teardown of one never closes the loop the other holds
C38_ContextOwnedExclusively ==
    [][/\ event_loop' # 0 => event_loop' # other_event_loop'
       /\ OtherCleanupEventLoop =>
             (event_loop \notin closed => event_loop \notin closed')
       /\ CleanupEventLoop =>
             (other_event_loop \notin closed =>
                  other_event_loop \notin closed')]_vars

\* C39: _run_async raises a type error for an argument that is no coroutine
\* before it touches the event loop: none is created, fetched or driven
C39_NonAwaitableRejected ==
    [][call'.op = "_run_async" =>
        \A c \in BridgeInputs :
            (c.type # "coroutine" /\ RunAsyncDirect(c)) =>
                /\ call'.err.exc = "TypeError"
                /\ call'.ret = PyNone
                /\ UNCHANGED <<loopState, tasks, running>>
                /\ UNCHANGED <<config, handles, chat_history>>]_vars

\* the bridge rejected its argument on a controller that has never had an
\* event loop, on a thread where none was ever created
C39_Witness ==
    /\ call.op = "_run_async"
    /\ call.err.exc = "TypeError"
    /\ event_loop = 0
    /\ loops = 0
    /\ model_provider # PyNone

====
